---- MODULE Spec2Model ----
(***************************************************************************)
(* EcoLens image resizer (src/App.tsx, imageUtils, geminiService).         *)
(*                                                                         *)
(* The App component's state, its event handlers, the "Live Resize"        *)
(* effect with its debounce timer, and the asynchronous steps of           *)
(* handleFileChange and resizeImage, as one state machine.  One action is  *)
(* one event handler or one promise/timer callback, together with the      *)
(* re-render and the effect run that it triggers.                          *)
(*                                                                         *)
(* Numbers: every dimension is a non-negative integer.  Math.round(n/d)    *)
(* is modelled by exact round-half-up on the rational n/d; for the         *)
(* dimensions within the bounds below the IEEE double computation of the   *)
(* source gives the same integer.  A quality q is held as the integer      *)
(* 100*q.  The IEEE value +Infinity is the distinguished value Infinity.   *)
(***************************************************************************)
EXTENDS Integers, Sequences, FiniteSets, TLC

\* ------------------------------------------------------------------ bounds

\* original images have width and height in 1..MaxOrig
MaxOrig == 5
\* values typed into the width / height inputs are in -1..MaxEdit
MaxEdit == 2
\* rasterization runs that may be in flight at once
MaxRuns == 2
\* handleFileChange invocations that may be in flight at once
MaxLoads == 2
\* files picked and changes of the options made, in one session
MaxChanges == 3

\* ------------------------------------------------------- values and types

\* IEEE +Infinity, the value of x / 0 for x > 0
Infinity == 2147483647

\* IEEE NaN, the value of 0 / 0
NaN == 0 - 2147483647

Pages == {"home", "editor", "mission", "results"}
Modes == {"pixels", "percentage"}
Formats == {"image/jpeg", "image/png", "image/webp"}

\* File.size of the files that decode, in bytes
FileSizes == {8, 64}

\* lengths of the data URLs canvas.toDataURL returns: a 22 character
\* prefix and the base64 text
PayloadLengths == {26, 102}

\* a File the user can pick: its natural size, whether it decodes, and its
\* size in bytes (the file that does not decode is an empty file)
Pictures ==
  [name : {1}, width : 1..MaxOrig, height : 1..MaxOrig, ok : {TRUE},
   size : FileSizes]
    \cup {[name |-> 2, width |-> 0, height |-> 0, ok |-> FALSE, size |-> 0]}

\* null, for file and previewSrc
NoFile == [name |-> 0, width |-> 0, height |-> 0, ok |-> FALSE, size |-> 0]

\* the files offered to the file picker in the full application model
LoadPictures ==
  { p \in Pictures :
      \/ ~p.ok
      \/ p.width = 2 /\ p.height = 1 /\ p.size = 64
      \/ p.width = 1 /\ p.height = 3 /\ p.size = 8 }

\* values the width and height inputs deliver (parseInt(...) || 0)
DimInputs == (0 - 1)..MaxEdit

\* values handed to updatePercentage
PercentInputs == {0 - 5, 0, 25, 50, 501}

\* values of the quality slider, as 100 * quality
QualityInputs == {50}

\* lastOp when the last step was no handler of the resize controls
NoOp == [op |-> "none", value |-> 0]

\* lastOp when the last step was a run of resizeImage that failed
RunFailed == [op |-> "runFailed", value |-> 0]

\* null, for resizedSrc
NoPayload ==
  [src |-> NoFile, width |-> 0, height |-> 0, quality |-> 0,
   format |-> "none", overtaken |-> FALSE, length |-> 0]

\* null, for analysis
NoAnalysis == [null |-> TRUE]

\* the fields of an AIAnalysisResult
AIAnalysisResult == {"description", "keywords", "ecoTip"}

\* the record analyzeImage returns from its catch block
Fallback ==
  [description |-> "Image analysis unavailable.",
   keywords |-> <<"error", "retry">>,
   ecoTip |-> "Nature takes its time, and sometimes so do servers."]

\* a record the service returns as JSON text under the response schema
ServiceResult ==
  [description |-> "alt text", keywords |-> <<"leaf">>, ecoTip |-> "tip"]

\* how generateContent settles: with the text of a record, with no text,
\* with text that JSON.parse rejects, or by rejecting
ResponseKinds == <<"text", "noText", "badText", "rejected">>
Responses == 1..Len(ResponseKinds)

VARIABLES
  currentPage,       \* Page
  file,              \* File | null
  previewSrc,        \* data URL of the loaded file | null
  resizedSrc,        \* the displayed payload | null
  originalDims,      \* ImageDimensions
  options,           \* ResizeOptions
  isResizing,        \* busy signal
  resizeTimeoutRef,  \* handle of the last timer set, 0 = null
  timers,            \* pending debounce timers, each with its closure
  hasCleanup,        \* the last effect run returned its cleanup function
  runs,              \* resizeImage calls awaiting img.onload, in start order
  loads,             \* handleFileChange calls awaiting a promise
  lastOp,            \* history: the handler that made the last step, its input
  changes,           \* history: the number of files picked, options changed
                     \* and scans started
  isAnalyzing,       \* busy signal of the Eco-Scanner
  analysis,          \* AIAnalysisResult | null
  scans              \* calls of analyzeImage awaiting the service

\* the state of the Eco-Scanner
scanVars == <<isAnalyzing, analysis, scans>>

vars ==
  <<currentPage, file, previewSrc, resizedSrc, originalDims, options,
    isResizing, resizeTimeoutRef, timers, hasCleanup, runs, loads, lastOp,
    changes, isAnalyzing, analysis, scans>>

\* --------------------------------------------------------- pure functions

\* variant of RoundDiv that truncates (Math.floor for Math.round); C4 must
\* tell it from RoundDiv
RoundDivFloor(n, d) == n \div d

\* Math.round(n / d) for n >= 0, d > 0: round half up
RoundDiv(n, d) == (2 * n + d) \div (2 * d)

\* Math.round((newW / originalDims.width) * 100) || 0
PercentOf(newW, origW) ==
  IF origW > 0 THEN RoundDiv(newW * 100, origW)
  ELSE IF newW = 0 THEN 0
  ELSE Infinity

\* variant of updateDimensions with the two ratios exchanged; C5 must tell
\* it from updateDimensions
updateDimensionsSwapped(opts, dims, key, value) ==
  IF value < 0 THEN opts
  ELSE
    LET newW ==
          IF key = "width" THEN value
          ELSE IF opts.maintainAspectRatio /\ dims.height > 0
               THEN RoundDiv(value * dims.height, dims.width)
               ELSE opts.width
        newH ==
          IF key = "width"
          THEN IF opts.maintainAspectRatio /\ dims.width > 0
               THEN RoundDiv(value * dims.width, dims.height)
               ELSE opts.height
          ELSE value
    IN [opts EXCEPT !.width = newW, !.height = newH,
                    !.percentage = PercentOf(newW, dims.width)]

\* variant of updateDimensions without the early return for a negative
\* value; C9 must tell it from updateDimensions
updateDimensionsNoGuard(opts, dims, key, value) ==
  LET newW == IF key = "width" THEN value ELSE opts.width
      newH == IF key = "width" THEN opts.height ELSE value
  IN IF value < 0
     THEN [opts EXCEPT !.width = newW, !.height = newH]
     ELSE [opts EXCEPT !.width = newW, !.height = newH,
                       !.percentage = PercentOf(newW, dims.width)]

\* variant of updateDimensions that recomputes the other axis whatever the
\* lock; C10 must tell it from updateDimensions
updateDimensionsAlwaysLocked(opts, dims, key, value) ==
  IF value < 0 THEN opts
  ELSE
    LET newW ==
          IF key = "width" THEN value
          ELSE IF dims.height > 0
               THEN RoundDiv(value * dims.width, dims.height)
               ELSE opts.width
        newH ==
          IF key = "width"
          THEN IF dims.width > 0
               THEN RoundDiv(value * dims.height, dims.width)
               ELSE opts.height
          ELSE value
    IN [opts EXCEPT !.width = newW, !.height = newH,
                    !.percentage = PercentOf(newW, dims.width)]

\* the options updateDimensions(key, value) stores
updateDimensions(opts, dims, key, value) ==
  IF value < 0 THEN opts
  ELSE
    LET newW ==
          IF key = "width" THEN value
          ELSE IF opts.maintainAspectRatio /\ dims.height > 0
               THEN RoundDiv(value * dims.width, dims.height)
               ELSE opts.width
        newH ==
          IF key = "width"
          THEN IF opts.maintainAspectRatio /\ dims.width > 0
               THEN RoundDiv(value * dims.height, dims.width)
               ELSE opts.height
          ELSE value
    IN [opts EXCEPT !.width = newW, !.height = newH,
                    !.percentage = PercentOf(newW, dims.width)]

\* variant of ClampPercent without the upper limit; C6 must tell it from
\* ClampPercent
ClampPercentNoUpper(val) == IF val < 1 THEN 1 ELSE val

\* the clamp of updatePercentage
ClampPercent(val) == IF val < 1 THEN 1 ELSE IF val > 500 THEN 500 ELSE val

\* the options updatePercentage(val) stores
updatePercentage(opts, dims, val) ==
  LET p == ClampPercent(val)
  IN [opts EXCEPT !.percentage = p,
                  !.width = RoundDiv(dims.width * p, 100),
                  !.height = RoundDiv(dims.height * p, 100)]

\* ---------------------------------------------------- the savings estimate

\* originalSize = file?.size || 0
originalSize(f) == f.size

\* newSizeEstimate: Math.round((resizedSrc.length - 22) * 0.75) for a
\* payload, the original size without one
newSizeEstimate(shown, orig) ==
  IF shown # NoPayload THEN RoundDiv(3 * (shown.length - 22), 4) ELSE orig

\* variant of savedBytes without Math.max; C13 must tell it from savedBytes
savedBytesUnclamped(orig, new) == orig - new

\* savedBytes = Math.max(0, originalSize - newSizeEstimate)
savedBytes(orig, new) == IF orig - new > 0 THEN orig - new ELSE 0

\* sizePercent = Math.round((newSizeEstimate / originalSize) * 100), with
\* the IEEE quotients x / 0 = Infinity for x > 0 and 0 / 0 = NaN
sizePercent(new, orig) ==
  IF orig = 0 THEN (IF new = 0 THEN NaN ELSE Infinity)
  ELSE RoundDiv(100 * new, orig)

\* ------------------------------------------------- the Live Resize effect

\* what resizeImage reads of the options object its closure holds
RenderOpts(opts) ==
  [width |-> opts.width, height |-> opts.height,
   quality |-> opts.quality, format |-> opts.format]

\* the effect's dependency array
Deps(src, opts) == <<src, opts.width, opts.height, opts.quality, opts.format>>

\* clearTimeout(handle): a pending timer with that handle is removed
clearTimeout(pending, handle) == { t \in pending : t.id # handle }

\* the handle setTimeout returns: one no pending timer has, other than the
\* last one returned
NewHandle(pending, ref) ==
  CHOOSE h \in 1..(Cardinality(pending) + 2) :
    h # ref /\ \A t \in pending : t.id # h

\* variant of Effect that never calls clearTimeout; C3 must tell it from
\* Effect
EffectNoClear(src, opts) ==
  LET same == [timers |-> timers, ref |-> resizeTimeoutRef,
               hasCleanup |-> hasCleanup, isResizing |-> isResizing]
      h == NewHandle(timers, resizeTimeoutRef)
  IN IF Deps(src, opts) = Deps(previewSrc, options) THEN same
     ELSE IF src = NoFile \/ opts.width = 0 \/ opts.height = 0
     THEN [same EXCEPT !.hasCleanup = FALSE]
     ELSE [timers |-> timers \cup
                        {[id |-> h, src |-> src, opts |-> RenderOpts(opts)]},
           ref |-> h, hasCleanup |-> TRUE, isResizing |-> TRUE]

\* variant of Effect without the guard on a zero width or height; C11 must
\* tell it from Effect
EffectNoZeroGuard(src, opts) ==
  LET same == [timers |-> timers, ref |-> resizeTimeoutRef,
               hasCleanup |-> hasCleanup, isResizing |-> isResizing]
      cleaned == IF hasCleanup THEN clearTimeout(timers, resizeTimeoutRef)
                 ELSE timers
      cleared == clearTimeout(cleaned, resizeTimeoutRef)
      h == NewHandle(cleared, resizeTimeoutRef)
  IN IF Deps(src, opts) = Deps(previewSrc, options) THEN same
     ELSE IF src = NoFile
     THEN [same EXCEPT !.timers = cleaned, !.hasCleanup = FALSE]
     ELSE [timers |-> cleared \cup
                        {[id |-> h, src |-> src, opts |-> RenderOpts(opts)]},
           ref |-> h, hasCleanup |-> TRUE, isResizing |-> TRUE]

\* The state the effect leaves when the component re-renders with
\* previewSrc = src and options = opts: nothing when no dependency changed;
\* otherwise the previous run's cleanup, then the effect body.
Effect(src, opts) ==
  LET same == [timers |-> timers, ref |-> resizeTimeoutRef,
               hasCleanup |-> hasCleanup, isResizing |-> isResizing]
      cleaned == IF hasCleanup THEN clearTimeout(timers, resizeTimeoutRef)
                 ELSE timers
      cleared == clearTimeout(cleaned, resizeTimeoutRef)
      h == NewHandle(cleared, resizeTimeoutRef)
  IN IF Deps(src, opts) = Deps(previewSrc, options) THEN same
     ELSE IF src = NoFile \/ opts.width = 0 \/ opts.height = 0
     THEN [same EXCEPT !.timers = cleaned, !.hasCleanup = FALSE]
     ELSE [timers |-> cleared \cup
                        {[id |-> h, src |-> src, opts |-> RenderOpts(opts)]},
           ref |-> h, hasCleanup |-> TRUE, isResizing |-> TRUE]

\* a handler's setOptions / setPreviewSrc, the re-render and the effect run
Render(src, opts) ==
  LET e == Effect(src, opts)
  IN /\ previewSrc' = src
     /\ options' = opts
     /\ timers' = e.timers
     /\ resizeTimeoutRef' = e.ref
     /\ hasCleanup' = e.hasCleanup
     /\ isResizing' = e.isResizing

\* ------------------------------------------------------------------- Init

\* DEFAULT_RESIZE_OPTIONS (constants.ts): the record of types.ts; the width
\* and height it starts with are left open
DEFAULT_RESIZE_OPTIONS ==
  [width : {0, MaxOrig}, height : {0, MaxOrig}, percentage : {100},
   mode : {"pixels"}, quality : {80}, format : {"image/jpeg"},
   maintainAspectRatio : {TRUE}]

Init ==
  /\ currentPage = "home"
  /\ file = NoFile
  /\ previewSrc = NoFile
  /\ resizedSrc = NoPayload
  /\ originalDims = [width |-> 0, height |-> 0]
  /\ options \in DEFAULT_RESIZE_OPTIONS
  /\ isResizing = FALSE
  /\ resizeTimeoutRef = 0
  /\ timers = {}
  /\ hasCleanup = FALSE
  /\ runs = <<>>
  /\ loads = <<>>
  /\ lastOp = NoOp
  /\ changes = 0
  /\ isAnalyzing = FALSE
  /\ analysis = NoAnalysis
  /\ scans = 0

\* ---------------------------------------------------------------- editing

\* the resize controls are rendered on the editor page (its 'resize' tab,
\* which can always be selected); a control's handler is one more change of
\* the options
Editing ==
  /\ currentPage = "editor"
  /\ changes < MaxChanges
  /\ changes' = changes + 1

\* width input onChange: updateDimensions('width', parseInt(value) || 0)
UpdateWidth ==
  /\ Editing /\ options.mode = "pixels"
  /\ \E v \in DimInputs :
       /\ Render(previewSrc, updateDimensions(options, originalDims, "width", v))
       /\ lastOp' = [op |-> "width", value |-> v]
  /\ UNCHANGED <<scanVars, currentPage, file, resizedSrc, originalDims, runs,
                 loads>>

\* height input onChange: updateDimensions('height', parseInt(value) || 0)
UpdateHeight ==
  /\ Editing /\ options.mode = "pixels"
  /\ \E v \in DimInputs :
       /\ Render(previewSrc, updateDimensions(options, originalDims, "height", v))
       /\ lastOp' = [op |-> "height", value |-> v]
  /\ UNCHANGED <<scanVars, currentPage, file, resizedSrc, originalDims, runs,
                 loads>>

\* scale slider onChange and the 25 / 50 / 75 buttons: updatePercentage(val)
UpdatePercentage ==
  /\ Editing /\ options.mode = "percentage"
  /\ \E v \in PercentInputs :
       /\ Render(previewSrc, updatePercentage(options, originalDims, v))
       /\ lastOp' = [op |-> "percentage", value |-> v]
  /\ UNCHANGED <<scanVars, currentPage, file, resizedSrc, originalDims, runs,
                 loads>>

\* the options the lock button stores
toggleLock(opts) ==
  [opts EXCEPT !.maintainAspectRatio = ~opts.maintainAspectRatio]

\* lock button onClick
ToggleLock ==
  /\ Editing /\ options.mode = "pixels"
  /\ Render(previewSrc, toggleLock(options))
  /\ lastOp' = [op |-> "lock", value |-> 0]
  /\ UNCHANGED <<scanVars, currentPage, file, resizedSrc, originalDims, runs,
                 loads>>

\* sizing mode buttons onClick
SetMode ==
  /\ Editing
  /\ \E m \in Modes :
       /\ Render(previewSrc, [options EXCEPT !.mode = m])
       /\ lastOp' = [op |-> "mode", value |-> IF m = "pixels" THEN 0 ELSE 1]
  /\ UNCHANGED <<scanVars, currentPage, file, resizedSrc, originalDims, runs,
                 loads>>

\* output format buttons onClick
SetFormat ==
  /\ Editing
  /\ \E f \in Formats :
       Render(previewSrc, [options EXCEPT !.format = f])
  /\ lastOp' = [op |-> "format", value |-> 0]
  /\ UNCHANGED <<scanVars, currentPage, file, resizedSrc, originalDims, runs,
                 loads>>

\* quality slider onChange (rendered unless the format is PNG)
SetQuality ==
  /\ Editing /\ options.format # "image/png"
  /\ \E q \in QualityInputs :
       /\ Render(previewSrc, [options EXCEPT !.quality = q])
       /\ lastOp' = [op |-> "quality", value |-> q]
  /\ UNCHANGED <<scanVars, currentPage, file, resizedSrc, originalDims, runs,
                 loads>>

\* ------------------------------------------------------------- navigation

\* navigateTo(page) from the buttons that are rendered: Home and Mission in
\* the navbar, Editor in the navbar once a file is set, See Result on the
\* editor page
NavigateTo ==
  /\ \E p \in Pages :
       /\ \/ p \in {"home", "mission"}
          \/ p = "editor" /\ file # NoFile
          \/ p = "results" /\ currentPage = "editor"
       /\ currentPage' = p
  /\ lastOp' = NoOp
  /\ UNCHANGED <<scanVars, changes, file, previewSrc, resizedSrc,
                 originalDims, options, isResizing, resizeTimeoutRef, timers,
                 hasCleanup, runs, loads>>

\* New Image on the results page: setFile(null); navigateTo('home')
NewImage ==
  /\ currentPage = "results"
  /\ file' = NoFile
  /\ currentPage' = "home"
  /\ lastOp' = NoOp
  /\ UNCHANGED <<scanVars, changes, previewSrc, resizedSrc, originalDims,
                 options, isResizing, resizeTimeoutRef, timers, hasCleanup,
                 runs, loads>>

\* --------------------------------------------------------------- download

\* options.format.split('/')[1]
Extension(format) ==
  CASE format = "image/jpeg" -> "jpeg"
    [] format = "image/png" -> "png"
    [] format = "image/webp" -> "webp"
    [] OTHER -> "undefined"

\* link.download: ecolens_resized_{width}x{height}.{extension}
downloadName(opts) ==
  [width |-> opts.width, height |-> opts.height,
   extension |-> Extension(opts.format)]

\* lastOp when the last step was downloadImage
Downloaded == [op |-> "download", value |-> 0]

\* Download Optimized Image on the results page: downloadImage returns when
\* resizedSrc is null; otherwise it clicks a link with href = resizedSrc
\* and download = downloadName(options), and changes no state
DownloadImage ==
  /\ currentPage = "results"
  /\ resizedSrc # NoPayload
  /\ lastOp' = Downloaded
  /\ UNCHANGED <<scanVars, changes, currentPage, file, previewSrc, resizedSrc,
                 originalDims, options, isResizing, resizeTimeoutRef, timers,
                 hasCleanup, runs, loads>>

\* ------------------------------------------------------- handleFileChange

\* s without its i-th element
RemoveAt(s, i) == SubSeq(s, 1, i - 1) \o SubSeq(s, i + 1, Len(s))

\* file input onChange / onDrop on the landing page: the synchronous part,
\* up to the await of getImageDimensions
HandleFileChange ==
  /\ currentPage = "home"
  /\ changes < MaxChanges
  /\ changes' = changes + 1
  /\ Len(loads) < MaxLoads
  /\ \E f \in LoadPictures :
       /\ file' = f
       /\ loads' = Append(loads, [file |-> f, pc |-> "dims"])
  /\ resizedSrc' = NoPayload
  /\ analysis' = NoAnalysis
  /\ lastOp' = NoOp
  /\ UNCHANGED <<isAnalyzing, scans, currentPage, previewSrc, originalDims,
                 options, isResizing, resizeTimeoutRef, timers, hasCleanup,
                 runs>>

\* getImageDimensions settles: img.onload resolves with the natural size
\* and the handler stores it and resets the options, then awaits
\* fileToDataString; img.onerror rejects and the handler's catch ends it
LoadDimensions ==
  \E i \in 1..Len(loads) :
    /\ loads[i].pc = "dims"
    /\ LET f == loads[i].file
       IN IF f.ok
          THEN /\ originalDims' = [width |-> f.width, height |-> f.height]
               /\ Render(previewSrc,
                         [options EXCEPT !.width = f.width,
                                         !.height = f.height,
                                         !.percentage = 100])
               /\ loads' = [loads EXCEPT ![i].pc = "data"]
               /\ lastOp' = NoOp
          ELSE /\ loads' = RemoveAt(loads, i)
               /\ lastOp' = NoOp
               /\ UNCHANGED <<originalDims, previewSrc, options, isResizing,
                              resizeTimeoutRef, timers, hasCleanup>>
    /\ UNCHANGED <<scanVars, changes, currentPage, file, resizedSrc, runs>>

\* fileToDataString resolves: setPreviewSrc(src); navigateTo('editor')
LoadData ==
  \E i \in 1..Len(loads) :
    /\ loads[i].pc = "data"
    /\ Render(loads[i].file, options)
    /\ currentPage' = "editor"
    /\ loads' = RemoveAt(loads, i)
    /\ lastOp' = NoOp
    /\ UNCHANGED <<scanVars, changes, file, resizedSrc, originalDims, runs>>

\* fileToDataString rejects (reader.onerror): the handler's catch ends it
LoadDataError ==
  \E i \in 1..Len(loads) :
    /\ loads[i].pc = "data"
    /\ loads' = RemoveAt(loads, i)
    /\ lastOp' = NoOp
    /\ UNCHANGED <<scanVars, changes, currentPage, file, previewSrc,
                   resizedSrc, originalDims, options, isResizing,
                   resizeTimeoutRef, timers, hasCleanup, runs>>

\* ------------------------------------------------ timer and rasterization

\* the payload canvas.toDataURL returns for a run: what it was drawn from,
\* and the length n of its text
Payload(run, n) ==
  [src |-> run.src, width |-> run.opts.width, height |-> run.opts.height,
   quality |-> run.opts.quality, format |-> run.opts.format,
   overtaken |-> run.overtaken, length |-> n]

\* variant of resizeImage that resolves with an empty result when the image
\* does not decode or the canvas has no 2d context; C12 must tell it from
\* resizeImage
resizeImageResolvesEmpty(run, decoded, ctx, n) ==
  IF decoded /\ ctx
  THEN [status |-> "resolved", value |-> Payload(run, n)]
  ELSE [status |-> "resolved", value |-> NoPayload]

\* how the promise of resizeImage settles: decoded is img.onload against
\* img.onerror, ctx is whether canvas.getContext('2d') returned a context
resizeImage(run, decoded, ctx, n) ==
  IF decoded /\ ctx
  THEN [status |-> "resolved", value |-> Payload(run, n)]
  ELSE [status |-> "rejected", value |-> NoPayload]

\* resizedSrc after the timer callback's try / catch, for a settled promise
AfterRun(shown, outcome) ==
  IF outcome.status = "resolved" THEN outcome.value ELSE shown

\* the runs left in flight when run i has displayed its result: those
\* started before it have been overtaken
AfterDisplay(rs, i) ==
  RemoveAt([j \in 1..Len(rs) |->
              IF j < i THEN [rs[j] EXCEPT !.overtaken = TRUE] ELSE rs[j]], i)

\* what the timer callback's try block stores when resizeImage resolves
DisplayResult(shown, run, n) == Payload(run, n)

\* the debounce timer fires: its callback calls resizeImage(previewSrc,
\* options) with the values of its closure and awaits it
TimerFire ==
  /\ Len(runs) < MaxRuns
  /\ \E t \in timers :
       /\ timers' = timers \ {t}
       /\ runs' = Append(runs, [src |-> t.src, opts |-> t.opts,
                                overtaken |-> FALSE])
  /\ lastOp' = NoOp
  /\ UNCHANGED <<scanVars, changes, currentPage, file, previewSrc, resizedSrc,
                 originalDims, options, isResizing, resizeTimeoutRef,
                 hasCleanup, loads>>

\* img.onload of a run, with a 2d context: resizeImage resolves, the
\* callback does setResizedSrc(result) and, in finally, setIsResizing(false)
RunResolve ==
  /\ \E i \in 1..Len(runs) :
       /\ \E n \in PayloadLengths :
            resizedSrc' = DisplayResult(resizedSrc, runs[i], n)
       /\ runs' = AfterDisplay(runs, i)
  /\ isResizing' = FALSE
  /\ lastOp' = NoOp
  /\ UNCHANGED <<scanVars, changes, currentPage, file, previewSrc,
                 originalDims, options, resizeTimeoutRef, timers, hasCleanup,
                 loads>>

\* img.onerror of a run, or no 2d context: resizeImage rejects, the
\* callback logs and, in finally, does setIsResizing(false)
RunReject ==
  /\ \E i \in 1..Len(runs) :
       /\ \E decoded \in BOOLEAN, ctx \in BOOLEAN, n \in PayloadLengths :
            /\ ~(decoded /\ ctx)
            /\ resizedSrc' =
                 AfterRun(resizedSrc, resizeImage(runs[i], decoded, ctx, n))
       /\ runs' = RemoveAt(runs, i)
  /\ isResizing' = FALSE
  /\ lastOp' = RunFailed
  /\ UNCHANGED <<scanVars, changes, currentPage, file, previewSrc,
                 originalDims, options, resizeTimeoutRef, timers, hasCleanup,
                 loads>>

\* ------------------------------------------------------------ Eco-Scanner

\* variant of analyzeImage whose catch block rethrows; C16 must tell it from
\* analyzeImage
analyzeImageRethrows(r) ==
  IF ResponseKinds[r] = "text"
  THEN [status |-> "resolved", value |-> ServiceResult]
  ELSE [status |-> "rejected", value |-> NoAnalysis]

\* how the promise of analyzeImage settles for response r: JSON.parse of
\* the text when there is text and it parses; otherwise the throw of
\* JSON.parse, the throw for no text or the rejection is caught and the
\* fallback record is returned
analyzeImage(r) ==
  IF ResponseKinds[r] = "text"
  THEN [status |-> "resolved", value |-> ServiceResult]
  ELSE [status |-> "resolved", value |-> Fallback]

\* analysis after handleEcoScan's try / catch, for a settled promise
AfterScan(shown, outcome) ==
  IF outcome.status = "resolved" THEN outcome.value ELSE shown

\* lastOp when the last step was a scan settling on response r
Scanned(r) == [op |-> "scan", value |-> r]

\* Start Scan on the editor page's 'ai' tab (disabled while isAnalyzing):
\* handleEcoScan returns when previewSrc is null; otherwise it sets
\* isAnalyzing and awaits analyzeImage
HandleEcoScan ==
  /\ currentPage = "editor"
  /\ ~isAnalyzing
  /\ previewSrc # NoFile
  /\ changes < MaxChanges
  /\ changes' = changes + 1
  /\ isAnalyzing' = TRUE
  /\ scans' = scans + 1
  /\ lastOp' = NoOp
  /\ UNCHANGED <<analysis, currentPage, file, previewSrc, resizedSrc,
                 originalDims, options, isResizing, resizeTimeoutRef, timers,
                 hasCleanup, runs, loads>>

\* analyzeImage settles: setAnalysis(result) and, in finally,
\* setIsAnalyzing(false)
ScanSettle ==
  /\ scans > 0
  /\ \E r \in Responses :
       /\ analysis' = AfterScan(analysis, analyzeImage(r))
       /\ lastOp' = Scanned(r)
  /\ isAnalyzing' = FALSE
  /\ scans' = scans - 1
  /\ UNCHANGED <<changes, currentPage, file, previewSrc, resizedSrc,
                 originalDims, options, isResizing, resizeTimeoutRef, timers,
                 hasCleanup, runs, loads>>

\* ---------------------------------------------------------- specifications

Next ==
  \/ UpdateWidth
  \/ UpdateHeight
  \/ UpdatePercentage
  \/ ToggleLock
  \/ SetMode
  \/ SetFormat
  \/ SetQuality
  \/ NavigateTo
  \/ NewImage
  \/ DownloadImage
  \/ HandleFileChange
  \/ LoadDimensions
  \/ LoadData
  \/ LoadDataError
  \/ TimerFire
  \/ RunResolve
  \/ RunReject
  \/ HandleEcoScan
  \/ ScanSettle

\* the application, from its construction
Spec == Init /\ [][Next]_vars

\* An editing session: the state in which handleFileChange leaves the
\* application for a picture of any size within the bounds, and from there
\* the dimension controls alone.
InitEdit ==
  \E p \in { q \in Pictures : q.ok } :
    \E d \in DEFAULT_RESIZE_OPTIONS :
      LET o == [d EXCEPT !.width = p.width, !.height = p.height,
                         !.percentage = 100]
      IN /\ currentPage = "editor"
         /\ file = p
         /\ previewSrc = p
         /\ resizedSrc = NoPayload
         /\ originalDims = [width |-> p.width, height |-> p.height]
         /\ options = o
         /\ isResizing = TRUE
         /\ resizeTimeoutRef = 1
         /\ timers = {[id |-> 1, src |-> p, opts |-> RenderOpts(o)]}
         /\ hasCleanup = TRUE
         /\ runs = <<>>
         /\ loads = <<>>
         /\ lastOp = NoOp
         /\ changes = 0
         /\ isAnalyzing = FALSE
         /\ analysis = NoAnalysis
         /\ scans = 0

NextEdit ==
  \/ UpdateWidth
  \/ UpdateHeight
  \/ UpdatePercentage
  \/ ToggleLock
  \/ SetMode

SpecEdit == InitEdit /\ [][NextEdit]_vars

\* ------------------------------------------------------- claims: helpers

\* r = round(n / d), by the definition of rounding half up: r - 1/2 <= n/d
\* and n/d < r + 1/2
IsRounded(r, n, d) == 2 * r * d <= 2 * n + d /\ 2 * n + d < 2 * r * d + 2 * d

Abs(x) == IF x < 0 THEN 0 - x ELSE x

Min(a, b) == IF a <= b THEN a ELSE b

\* an image has been loaded: its natural size is known
Loaded == originalDims.width > 0 /\ originalDims.height > 0

\* the last step was a width or height edit with a value that is not rejected
DimEdited == lastOp.op \in {"width", "height"} /\ lastOp.value >= 0

\* --------------------------------------------------------------------- C1

\* C1 (as claimed): in every state of an editing session with original
\* dimensions W, H > 0, when maintainAspectRatio is true and the mode is
\* 'pixels', height = round(width * H / W) or width = round(height * W / H).
C1_LockedRatioKept ==
  (Loaded /\ options.maintainAspectRatio /\ options.mode = "pixels") =>
    \/ IsRounded(options.height, options.width * originalDims.height,
                 originalDims.width)
    \/ IsRounded(options.width, options.height * originalDims.width,
                 originalDims.height)

\* --------------------------------------------------------------------- C2

\* C2 (as claimed): the displayed payload never comes from a run that a
\* run started after it had already overtaken: once the newer run's result
\* has been displayed, the older run's result does not replace it.
C2_NoStaleOverwrite == ~resizedSrc.overtaken

\* --------------------------------------------------------------------- C3

\* the pending timer that carries the current options
CurrentTimer ==
  [id |-> resizeTimeoutRef, src |-> previewSrc, opts |-> RenderOpts(options)]

\* this step is a change, made with the resize controls of an open image,
\* of the width, height, quality or format
OptionsChange ==
  /\ lastOp' # NoOp
  /\ previewSrc # NoFile
  /\ RenderOpts(options') # RenderOpts(options)

\* this step starts a rasterization run
RunStarts == Len(runs') = Len(runs) + 1

\* C3 (as claimed): every change of width, height, quality or format
\* cancels the pending timer and schedules a new one, which carries the new
\* options; so one run will start for the burst, with the final options.
C3_EveryChangeSchedules ==
  [][OptionsChange => timers' = {CurrentTimer'}]_vars

\* C3 (amended): every change of width, height, quality or format cancels
\* the pending timer, and schedules a new one carrying the new options
\* when the new width and height are both non-zero; at most one timer is
\* pending at any time and it carries the current options; and a run that
\* starts is invoked with the current options and leaves no timer pending,
\* so at most one run starts for a burst, with the final options.
C3_DebounceCoalesces ==
  /\ [](Cardinality(timers) <= 1 /\ \A t \in timers : t = CurrentTimer)
  /\ [][OptionsChange =>
          timers' = IF options'.width # 0 /\ options'.height # 0
                    THEN {CurrentTimer'} ELSE {}]_vars
  /\ [][RunStarts =>
          /\ timers' = {}
          /\ runs'[Len(runs')].src = previewSrc
          /\ runs'[Len(runs')].opts = RenderOpts(options)]_vars

\* C3 witness: after a file was picked and both the format and the width
\* were changed, no run has started and a single timer is pending, for the
\* last change
C3_BurstPending ==
  /\ changes = 3
  /\ lastOp # NoOp
  /\ runs = <<>>
  /\ resizedSrc = NoPayload
  /\ timers = {CurrentTimer}
  /\ options.format = "image/png"
  /\ options.width # originalDims.width

\* --------------------------------------------------------------------- C4

\* the last step was a width edit to W' > 0 with the lock on
LockedWidthEdited ==
  Loaded /\ lastOp.op = "width" /\ lastOp.value > 0
    /\ options.maintainAspectRatio

\* C4 (as claimed): with W, H > 0 and the lock on, a width edit to W' > 0
\* yields height' with |height'/W' - H/W| <= 1/min(W, H); multiplied out,
\* min(W, H) * |height' * W - W' * H| <= W' * W.
C4_RatioWithinOneOverMin ==
  LockedWidthEdited =>
    Min(originalDims.width, originalDims.height)
        * Abs(options.height * originalDims.width
                - options.width * originalDims.height)
      <= options.width * originalDims.width

\* C4 (amended): with W, H > 0 and the lock on, a width edit to W' > 0
\* yields height' with |height'/W' - H/W| <= 1/(2 * W'); multiplied out,
\* 2 * |height' * W - W' * H| <= W.
C4_RatioWithinHalfPixel ==
  LockedWidthEdited =>
    2 * Abs(options.height * originalDims.width
              - options.width * originalDims.height)
      <= originalDims.width

\* C4 witness: a locked width edit whose height is outside the tolerance
\* first claimed
C4_LockedWidthEditOutsideOneOverMin ==
  LockedWidthEdited /\ ~C4_RatioWithinOneOverMin

\* --------------------------------------------------------------------- C5

\* the options of a freshly loaded picture of the given size
FreshOptions(w, h) ==
  [width |-> w, height |-> h, percentage |-> 100, mode |-> "pixels",
   quality |-> 80, format |-> "image/jpeg", maintainAspectRatio |-> TRUE]

C7_PercentageInRange == Loaded => options.percentage \in 1..500

\* --------------------------------------------------------------------- C8

\* C8 (as claimed): after a width or height edit, percentage is
\* round(width / original.width * 100) of the new width, and 0 whenever
\* original.width = 0.
C8_PercentageRecomputed ==
  DimEdited =>
    IF originalDims.width = 0 THEN options.percentage = 0
    ELSE IsRounded(options.percentage, options.width * 100,
                   originalDims.width)

\* --------------------------------------------------------------------- C9

\* this step is a width or height edit with a negative value
NegativeEdit == lastOp'.op \in {"width", "height"} /\ lastOp'.value < 0

\* C9: a width or height edit with a negative value leaves the options
\* unchanged, and options.width >= 0 and options.height >= 0 in every
\* reachable state.
C9_NegativeEditIgnored ==
  /\ [](options.width >= 0 /\ options.height >= 0)
  /\ [][NegativeEdit => options' = options]_vars

\* C9 witness: a negative value was typed into the height input of a
\* loaded image
C9_NegativeHeightTyped ==
  Loaded /\ lastOp.op = "height" /\ lastOp.value < 0

\* -------------------------------------------------------------------- C10

\* the fields no width or height edit writes
Untouched(o) ==
  <<o.mode, o.quality, o.format, o.maintainAspectRatio>>

\* C10: with the lock off, a width edit leaves height unchanged and a
\* height edit leaves width unchanged, both leave mode, quality, format and
\* maintainAspectRatio unchanged, and no edit modifies the original
\* dimensions.
C10_UnlockedEditFrame ==
  /\ [][(lastOp'.op = "width" /\ ~options.maintainAspectRatio) =>
          /\ options'.height = options.height
          /\ Untouched(options') = Untouched(options)]_vars
  /\ [][(lastOp'.op = "height" /\ ~options.maintainAspectRatio) =>
          /\ options'.width = options.width
          /\ Untouched(options') = Untouched(options)]_vars
  /\ [][lastOp' # NoOp => originalDims' = originalDims]_vars

\* C10 witness: with the lock off a width was typed, and the height kept
\* is not the one the original ratio gives
C10_UnlockedWidthTyped ==
  /\ Loaded /\ lastOp.op = "width" /\ lastOp.value > 0
  /\ ~options.maintainAspectRatio
  /\ options.width = lastOp.value
  /\ ~IsRounded(options.height, options.width * originalDims.height,
                originalDims.width)

\* -------------------------------------------------------------------- C11

\* C11: resizeImage is only invoked with a width and a height greater than
\* zero: every pending debounce timer holds such options in its closure,
\* and so does every run in flight.
C11_RunsHavePositiveSize ==
  /\ \A t \in timers : t.opts.width > 0 /\ t.opts.height > 0
  /\ \A i \in 1..Len(runs) : runs[i].opts.width > 0 /\ runs[i].opts.height > 0

\* a percentage edit has rounded a dimension of a loaded image to zero, and
\* the effect has scheduled nothing for it
C11_PercentageRoundedToZero ==
  /\ lastOp.op = "percentage"
  /\ previewSrc # NoFile /\ Loaded
  /\ options.width = 0 /\ options.height > 0
  /\ timers = {} /\ runs = <<>>

\* -------------------------------------------------------------------- C12

\* C12: a step in which a run of resizeImage fails leaves resizedSrc as it
\* was: the failure reaches the callback as a rejection, which stores
\* nothing, and not as a resolved empty result, which would be stored.
C12_FailedRunKeepsPayload ==
  [][lastOp' = RunFailed => resizedSrc' = resizedSrc]_vars

\* a run has failed while the payload of an earlier run is displayed
C12_FailedAfterPayload == lastOp = RunFailed /\ resizedSrc # NoPayload

\* -------------------------------------------------------------------- C13

\* the values the component computes from its state at every render
OriginalSize == originalSize(file)
NewSizeEstimate == newSizeEstimate(resizedSrc, OriginalSize)
SavedBytes == savedBytes(OriginalSize, NewSizeEstimate)
SizePercent == sizePercent(NewSizeEstimate, OriginalSize)

\* C13: savedBytes is max(0, original bytes - estimated new bytes), so it
\* is never negative; without a payload the estimated new size is the
\* original size and savedBytes is 0.
C13_SavedBytesClamped ==
  /\ SavedBytes >= 0
  /\ SavedBytes >= OriginalSize - NewSizeEstimate
  /\ SavedBytes \in {0, OriginalSize - NewSizeEstimate}
  /\ resizedSrc = NoPayload =>
       NewSizeEstimate = OriginalSize /\ SavedBytes = 0

\* a payload is displayed whose estimated size is above the file's
C13_PayloadLargerThanFile ==
  /\ file # NoFile /\ resizedSrc # NoPayload
  /\ resizedSrc.src = file
  /\ OriginalSize < NewSizeEstimate

\* -------------------------------------------------------------------- C14

\* C14 (as claimed): sizePercent is a finite number also when the original
\* byte size is 0 because no file is held; stated for the results page,
\* which displays it.
C14_SizePercentFinite ==
  (currentPage = "results" /\ file = NoFile) =>
    SizePercent \notin {NaN, Infinity}

\* -------------------------------------------------------------------- C15

\* C15 (as claimed): when downloadImage has offered the payload, the width,
\* height and extension of the filename are those that produced the
\* payload.
C15_DownloadNameMatchesPayload ==
  lastOp = Downloaded =>
    downloadName(options) =
      [width |-> resizedSrc.width, height |-> resizedSrc.height,
       extension |-> Extension(resizedSrc.format)]

\* -------------------------------------------------------------------- C16

C17_BusyWhileWorkOutstanding ==
  (timers # {} \/ runs # <<>>) => isResizing

\* -------------------------------------------------------------------- C18

\* C18 (as claimed): no sequence of changes leaves isResizing true with no
\* debounce timer pending and no run in flight, from where nothing would
\* reset it.
C18_IdleWhenNothingOutstanding ==
  (timers = {} /\ runs = <<>>) => ~isResizing

\* -------------------------------------------------------------------- C19

\* C19 (as claimed): when no call of handleFileChange is in flight, the
\* file, originalDims and previewSrc of a session that has a file and a
\* preview belong to the same image.
C19_SessionOfOneImage ==
  (loads = <<>> /\ file # NoFile /\ previewSrc # NoFile) =>
    /\ previewSrc = file
    /\ originalDims = [width |-> file.width, height |-> file.height]

\* -------------------------------------------------------------------- C20

\* C20 (as claimed): when the selected image has been loaded, the payload
\* displayed is absent or was produced from that image.
C20_PayloadOfSelectedImage ==
  (loads = <<>> /\ file # NoFile /\ previewSrc = file
     /\ resizedSrc # NoPayload) =>
    resizedSrc.src = file

====
